---- MODULE Spec2Model ----
(***************************************************************************)
(* Client-side entity synchronisation of the Kaas front end: the prompt    *)
(* grid (PromptGrid) and the settings page (Settings.tsx), each a set of   *)
(* user handlers that dispatch a call to the persistence gateway and of    *)
(* onSuccess / onError handlers that run when the response arrives.        *)
(*                                                                         *)
(* Strings are sequences of characters (tuples of one-character strings),  *)
(* so that Number(), toString() and JSON.stringify() are computed.         *)
(***************************************************************************)
EXTENDS Integers, Sequences, FiniteSets, TLC

\* ---------------------------------------------------------------- bounds
\* Gateway calls the prompt grid dispatches in one behaviour.
MaxPromptCalls == 3
\* Gateway calls a card of the settings page dispatches in one behaviour.
MaxSettingCalls == 2
\* Every string of at most this many characters over Alphabet is an input.
MaxInputLen == 1
\* Gateway calls the remote model selector dispatches in one behaviour.
MaxRemoteCalls == 2
\* The longest list of remote models the gateway returns.
MaxModels == 2
\* Models the new model dialog passes to onSubmit in one behaviour.
MaxSubmits == 1

\* ------------------------------------------------------- program constants
CTX_MIN == 0
CTX_MAX == 65535
TOKENS_MIN == 1
TOKENS_MAX == 65535

SETTING_DISPLAY_LANGUAGE == "display:language"
SETTING_DISPLAY_THEME == "display:theme"
SETTING_PROFILE_NAME == "profile:name"
SETTING_MODELS_CONTEXT_LENGTH == "models:context_length"
SETTING_MODELS_MAX_TOKENS == "models:max_tokens"
SETTING_NETWORK_PROXY == "network:proxy"

SettingKeys ==
  { SETTING_DISPLAY_LANGUAGE, SETTING_DISPLAY_THEME, SETTING_PROFILE_NAME,
    SETTING_MODELS_CONTEXT_LENGTH, SETTING_MODELS_MAX_TOKENS,
    SETTING_NETWORK_PROXY }

\* The prompt grid and the cards of the settings page.  The cards share the
\* settings store and nothing else, and each writes a key of its own, so a
\* behaviour exercises one view and the others stay as constructed.
Views ==
  { "prompts", "language", "theme", "name", "contextLength", "maxTokens",
    "proxy", "remote", "conversation", "modelDialog" }

\* No view: the view the behaviour exercised has been torn down.
TornDown == "tornDown"

\* A settings key the store has no value for.
Undefined == <<"undefined">>

VARIABLES
  view,           \* the view the behaviour exercises (see Views)
  promptsCache,   \* query data under LIST_PROMPTS_KEY: [defined, data]
  editDialog,     \* the prompt the edit dialog is open on: [open, id]
  settings,       \* useAppStateStore: state.settings, key -> string
  languageRef,    \* SettingLanguage: languageRef.current
  themeRef,       \* SettingTheme: themeRef.current
  ctxError,       \* SettingContextLength: error state
  maxError,       \* SettingMaxTokens: error state
  proxyForm,      \* SettingProxy: the values of the react-hook-form form
  gwPrompts,      \* the gateway's prompt collection
  gwNextId,       \* the next id the gateway assigns
  provider,       \* RemoteModelsSelector: the provider prop
  apiKey,         \* RemoteModelsSelector: the apiKey prop
  enabled,        \* RemoteModelsSelector: the enabled state
  remoteModels,   \* the query cached under LIST_REMOTE_MODELS_KEY
  data,           \* RemoteModelsSelector: data, as of the latest render
  modelField,     \* the form's model field
  apiKeyError,    \* the form's error on the apiKey field
  renderError,    \* RemoteModelsSelector: render has thrown
  conversations,  \* the query cached under LIST_CONVERSATIONS_KEY
  location,       \* the router's location
  showDialog,     \* NewModelFormDialog: showDialog
  dialogProvider, \* NewModelFormDialog: provider
  modelForm,      \* the values of the form NewModelFormDialog renders
  submitted,      \* the models NewModelFormDialog has passed to onSubmit
  calls           \* every gateway call dispatched, by call number

vars ==
  << view, promptsCache, editDialog, settings, languageRef, themeRef,
     ctxError, maxError, proxyForm, gwPrompts, gwNextId, provider, apiKey,
     enabled, remoteModels, data, modelField, apiKeyError, renderError,
     conversations, location, showDialog, dialogProvider, modelForm,
     submitted, calls >>

promptVars == << promptsCache, editDialog, gwPrompts, gwNextId >>
settingVars ==
  << view, settings, languageRef, themeRef, ctxError, maxError, proxyForm >>
remoteVars ==
  << provider, apiKey, enabled, remoteModels, data, modelField, apiKeyError,
     renderError >>
conversationVars == << conversations, location >>
dialogVars == << showDialog, dialogProvider, modelForm, submitted >>

\* ------------------------------------------------------------ gateway calls
\* A call as dispatched: the mutation's variables, then the gateway's reply.
\* st is "sent" (at the gateway), "replied" (the response is on its way to
\* the handler), "done" (the handler has run) or "cancelled"; patches counts
\* the writes of the entity cache the handler made, toast the notifications
\* it showed and log the entries it wrote to the log.
NewCall(op, id, alias, key, value) ==
  [ op |-> op, id |-> id, alias |-> alias, key |-> key, value |-> value,
    st |-> "sent", ok |-> FALSE, resId |-> 0, resAlias |-> "",
    resList |-> <<>>, patches |-> 0, toast |-> 0, log |-> 0 ]

\* The record kept of a call once its handler has run: its outcome and the
\* number of writes.
Handled(c, n) ==
  [ NewCall("", 0, "", "", <<>>) EXCEPT
      !.st = "done", !.ok = c.ok, !.patches = n ]

\* The call c with the signals its handler gave: toast.success or
\* toast.error, and log.error.
Signal(c, toasts, logs) == [c EXCEPT !.toast = toasts, !.log = logs]

Dispatch(c) ==
  /\ Len(calls) <
       (CASE c.op = "upsertSetting" -> MaxSettingCalls
          [] c.op = "listRemoteModels" -> MaxRemoteCalls
          [] OTHER -> MaxPromptCalls)
  /\ calls' = Append(calls, c)

Replied(i) == i \in 1..Len(calls) /\ calls[i].st = "replied"
Sent(i) == i \in 1..Len(calls) /\ calls[i].st = "sent"

\* ------------------------------------------------------------- prompt grid
\* The aliases an edited prompt is given, and those of a new prompt.
Aliases == {"a", "b"}
NewAliases == {"a"}

Prompt(id, alias) == [id |-> id, alias |-> alias]

NoData == [defined |-> FALSE, data |-> <<>>]
Data(list) == [defined |-> TRUE, data |-> list]

\* draft.findIndex((p) => p.id === prompt.id), 1-based; -1 when there is none.
FindIndex(list, id) ==
  IF \E i \in 1..Len(list) : list[i].id = id
    THEN CHOOSE i \in 1..Len(list) :
           /\ list[i].id = id
           /\ \A j \in 1..(i - 1) : list[j].id # id
    ELSE -1

\* CreatorPatch with an absent collection left absent: old ? [...] : old
CreatorPatchNoCache(old, prompt) ==
  IF old.defined THEN Data(Append(old.data, prompt)) ELSE old

\* creator onSuccess: (old) => old ? [...old, prompt] : [prompt]
CreatorPatch(old, prompt) ==
  IF old.defined THEN Data(Append(old.data, prompt)) ELSE Data(<<prompt>>)

\* UpdaterPatch adding a prompt that the collection does not hold.
UpdaterPatchUpserts(old, prompt) ==
  LET index == FindIndex(old.data, prompt.id) IN
  IF ~old.defined THEN old
  ELSE IF index # -1
    THEN Data([old.data EXCEPT ![index] = prompt])
    ELSE Data(Append(old.data, prompt))

\* updater onSuccess: produce(old, draft => { draft[index] = prompt })
UpdaterPatch(old, prompt) ==
  LET index == FindIndex(old.data, prompt.id) IN
  IF old.defined /\ index # -1
    THEN Data([old.data EXCEPT ![index] = prompt])
    ELSE old

\* DeleterPatch with the filter's test inverted: p.id === prompt.id
DeleterPatchInverted(old, prompt) ==
  IF old.defined
    THEN Data(SelectSeq(old.data, LAMBDA p : p.id = prompt.id))
    ELSE old

\* deleter onSuccess: produce(old, draft => draft?.filter(p => p.id !== id))
DeleterPatch(old, prompt) ==
  IF old.defined
    THEN Data(SelectSeq(old.data, LAMBDA p : p.id # prompt.id))
    ELSE old

\* onCreateSubmit: creator(newPrompt)
OnCreateSubmit(alias) ==
  /\ view = "prompts"
  /\ Dispatch(NewCall("createPrompt", 0, alias, "", <<>>))
  /\ UNCHANGED << promptVars, settingVars, remoteVars, conversationVars,
                  dialogVars >>

\* onEditClick: the edit dialog opens on a prompt the grid shows.
OnEditClick(i) ==
  /\ view = "prompts"
  /\ promptsCache.defined
  /\ i \in 1..Len(promptsCache.data)
  /\ editDialog' = [open |-> TRUE, id |-> promptsCache.data[i].id]
  /\ UNCHANGED << promptsCache, gwPrompts, gwNextId, settingVars,
                  remoteVars, conversationVars, dialogVars,
                  calls >>

\* onEditSubmit: updater(prompt)
OnEditSubmit(alias) ==
  /\ view = "prompts"
  /\ editDialog.open
  /\ Dispatch(NewCall("updatePrompt", editDialog.id, alias, "", <<>>))
  /\ UNCHANGED << promptVars, settingVars, remoteVars, conversationVars,
                  dialogVars >>

\* onDeleteClick: deleter(prompt.id)
OnDeleteClick ==
  /\ view = "prompts"
  /\ editDialog.open
  /\ Dispatch(NewCall("deletePrompt", editDialog.id, "", "", <<>>))
  /\ UNCHANGED << promptVars, settingVars, remoteVars, conversationVars,
                  dialogVars >>

\* useListPromptsQuery: the query, which fetches when the grid is mounted
\* (the call Init holds), fetches again unless a fetch is already running.
ListPromptsFetch ==
  /\ view = "prompts"
  /\ \A i \in 1..Len(calls) :
       calls[i].op = "listPrompts" => calls[i].st = "done"
  /\ Dispatch(NewCall("listPrompts", 0, "", "", <<>>))
  /\ UNCHANGED << promptVars, settingVars, remoteVars, conversationVars,
                  dialogVars >>

CreatorOnSuccess(i) ==
  /\ Replied(i) /\ calls[i].op = "createPrompt" /\ calls[i].ok
  /\ promptsCache' =
       CreatorPatch(promptsCache, Prompt(calls[i].resId, calls[i].resAlias))
  /\ calls' = [calls EXCEPT ![i] = Signal(Handled(@, 1), 1, 0)]
  /\ UNCHANGED << editDialog, gwPrompts, gwNextId, settingVars,
                  remoteVars, conversationVars, dialogVars >>

\* CreatorOnError dropping the cached collection on a failure.
CreatorOnErrorInvalidates(i) ==
  /\ Replied(i) /\ calls[i].op = "createPrompt" /\ ~calls[i].ok
  /\ promptsCache' = NoData
  /\ calls' = [calls EXCEPT ![i] = Signal(Handled(@, 0), 1, 1)]
  /\ UNCHANGED << editDialog, gwPrompts, gwNextId, settingVars,
                  remoteVars, conversationVars, dialogVars >>

CreatorOnError(i) ==
  /\ Replied(i) /\ calls[i].op = "createPrompt" /\ ~calls[i].ok
  /\ calls' = [calls EXCEPT ![i] = Signal(Handled(@, 0), 1, 1)]
  /\ UNCHANGED << promptVars, settingVars, remoteVars, conversationVars,
                  dialogVars >>

UpdaterOnSuccess(i) ==
  /\ Replied(i) /\ calls[i].op = "updatePrompt" /\ calls[i].ok
  /\ promptsCache' =
       UpdaterPatch(promptsCache, Prompt(calls[i].resId, calls[i].resAlias))
  /\ editDialog' = [open |-> FALSE, id |-> 0]
  /\ calls' = [calls EXCEPT ![i] = Signal(Handled(@, 1), 1, 0)]
  /\ UNCHANGED << gwPrompts, gwNextId, settingVars,
                  remoteVars, conversationVars, dialogVars >>

UpdaterOnError(i) ==
  /\ Replied(i) /\ calls[i].op = "updatePrompt" /\ ~calls[i].ok
  /\ calls' = [calls EXCEPT ![i] = Signal(Handled(@, 0), 1, 1)]
  /\ UNCHANGED << promptVars, settingVars, remoteVars, conversationVars,
                  dialogVars >>

DeleterOnSuccess(i) ==
  /\ Replied(i) /\ calls[i].op = "deletePrompt" /\ calls[i].ok
  /\ promptsCache' =
       DeleterPatch(promptsCache, Prompt(calls[i].resId, calls[i].resAlias))
  /\ editDialog' = [open |-> FALSE, id |-> 0]
  /\ calls' = [calls EXCEPT ![i] = Signal(Handled(@, 1), 1, 0)]
  /\ UNCHANGED << gwPrompts, gwNextId, settingVars,
                  remoteVars, conversationVars, dialogVars >>

DeleterOnError(i) ==
  /\ Replied(i) /\ calls[i].op = "deletePrompt" /\ ~calls[i].ok
  /\ calls' = [calls EXCEPT ![i] = Signal(Handled(@, 0), 1, 1)]
  /\ UNCHANGED << promptVars, settingVars, remoteVars, conversationVars,
                  dialogVars >>

\* The list query stores the fetched collection as the query's data.
ListPromptsOnSuccess(i) ==
  /\ Replied(i) /\ calls[i].op = "listPrompts" /\ calls[i].ok
  /\ promptsCache' = Data(calls[i].resList)
  /\ calls' = [calls EXCEPT ![i] = Handled(@, 1)]
  /\ UNCHANGED << editDialog, gwPrompts, gwNextId, settingVars,
                  remoteVars, conversationVars, dialogVars >>

ListPromptsOnError(i) ==
  /\ Replied(i) /\ calls[i].op = "listPrompts" /\ ~calls[i].ok
  /\ calls' = [calls EXCEPT ![i] = Handled(@, 0)]
  /\ UNCHANGED << promptVars, settingVars, remoteVars, conversationVars,
                  dialogVars >>

\* ------------------------------------------------------ persistence gateway
Reply(c, ok, id, alias, list) ==
  [c EXCEPT !.st = "replied", !.ok = ok, !.resId = id, !.resAlias = alias,
            !.resList = list]

\* Any call may fail at the gateway, which then changes nothing.
GatewayError(i) ==
  /\ Sent(i)
  /\ calls' = [calls EXCEPT ![i] = Reply(@, FALSE, 0, "", <<>>)]
  /\ UNCHANGED << promptVars, settingVars, remoteVars, conversationVars,
                  dialogVars >>

\* createPrompt(NewPrompt) -> Prompt: the gateway assigns the id.
GatewayCreatePrompt(i) ==
  /\ Sent(i) /\ calls[i].op = "createPrompt"
  /\ gwPrompts' = Append(gwPrompts, Prompt(gwNextId, calls[i].alias))
  /\ gwNextId' = gwNextId + 1
  /\ calls' = [calls EXCEPT ![i] = Reply(@, TRUE, gwNextId, @.alias, <<>>)]
  /\ UNCHANGED << promptsCache, editDialog, settingVars,
                  remoteVars, conversationVars, dialogVars >>

\* updatePrompt(Prompt) -> Prompt
GatewayUpdatePrompt(i) ==
  /\ Sent(i) /\ calls[i].op = "updatePrompt"
  /\ FindIndex(gwPrompts, calls[i].id) # -1
  /\ gwPrompts' =
       [gwPrompts EXCEPT ![FindIndex(gwPrompts, calls[i].id)] =
          Prompt(calls[i].id, calls[i].alias)]
  /\ calls' = [calls EXCEPT ![i] = Reply(@, TRUE, @.id, @.alias, <<>>)]
  /\ UNCHANGED << promptsCache, editDialog, gwNextId, settingVars,
                  remoteVars, conversationVars, dialogVars >>

\* deletePrompt(id) -> the deleted prompt
GatewayDeletePrompt(i) ==
  /\ Sent(i) /\ calls[i].op = "deletePrompt"
  /\ FindIndex(gwPrompts, calls[i].id) # -1
  /\ gwPrompts' = SelectSeq(gwPrompts, LAMBDA p : p.id # calls[i].id)
  /\ calls' =
       [calls EXCEPT ![i] =
          Reply(@, TRUE, @.id,
                gwPrompts[FindIndex(gwPrompts, calls[i].id)].alias, <<>>)]
  /\ UNCHANGED << promptsCache, editDialog, gwNextId, settingVars,
                  remoteVars, conversationVars, dialogVars >>

\* listPrompts() -> sequence of Prompt
GatewayListPrompts(i) ==
  /\ Sent(i) /\ calls[i].op = "listPrompts"
  /\ calls' = [calls EXCEPT ![i] = Reply(@, TRUE, 0, "", gwPrompts)]
  /\ UNCHANGED << promptVars, settingVars, remoteVars, conversationVars,
                  dialogVars >>

\* ------------------------------------------------------------------ strings
Digits == {"0", "1", "2", "3", "4", "5", "6", "7", "8", "9"}

DigitValue(c) ==
  CASE c = "0" -> 0 [] c = "1" -> 1 [] c = "2" -> 2 [] c = "3" -> 3
    [] c = "4" -> 4 [] c = "5" -> 5 [] c = "6" -> 6 [] c = "7" -> 7
    [] c = "8" -> 8 [] c = "9" -> 9

DigitChar(d) ==
  CASE d = 0 -> "0" [] d = 1 -> "1" [] d = 2 -> "2" [] d = 3 -> "3"
    [] d = 4 -> "4" [] d = 5 -> "5" [] d = 6 -> "6" [] d = 7 -> "7"
    [] d = 8 -> "8" [] d = 9 -> "9"

AllDigits(s) == \A i \in 1..Len(s) : s[i] \in Digits

RECURSIVE DigitsValue(_)
DigitsValue(s) ==
  IF s = <<>> THEN 0
  ELSE 10 * DigitsValue(SubSeq(s, 1, Len(s) - 1)) + DigitValue(s[Len(s)])

\* String.prototype.trim, as StringToNumber strips white space.
RECURSIVE Trim(_)
Trim(s) ==
  IF s = <<>> THEN s
  ELSE IF Head(s) = " " THEN Trim(Tail(s))
  ELSE IF s[Len(s)] = " " THEN Trim(SubSeq(s, 1, Len(s) - 1))
  ELSE s

\* The index of the first "." of s, Len(s) + 1 when there is none.
DotIndex(s) ==
  IF \E i \in 1..Len(s) : s[i] = "."
    THEN CHOOSE i \in 1..Len(s) :
           s[i] = "." /\ \A j \in 1..(i - 1) : s[j] # "."
    ELSE Len(s) + 1

\* Number(value) of z.coerce.number(): ECMAScript StringToNumber on the
\* characters of Alphabet: white space is trimmed, the empty string is 0, a
\* signed decimal literal is its value, anything else is NaN.  val is the
\* integral part; int says that the fraction is zero.  (The inputs are
\* written with digits, a sign, a point, white space and letters: no
\* exponents, no 0x, no Infinity.)
Number(value) ==
  LET t == Trim(value)
      signed == t # <<>> /\ Head(t) \in {"+", "-"}
      body == IF signed THEN Tail(t) ELSE t
      dot == DotIndex(body)
      ip == SubSeq(body, 1, dot - 1)
      fp == SubSeq(body, dot + 1, Len(body))
      sign == IF signed /\ Head(t) = "-" THEN -1 ELSE 1
  IN
  IF t = <<>> THEN [nan |-> FALSE, int |-> TRUE, val |-> 0]
  ELSE IF AllDigits(ip) /\ AllDigits(fp) /\ Len(ip) + Len(fp) >= 1
    THEN [ nan |-> FALSE,
           int |-> \A i \in 1..Len(fp) : fp[i] = "0",
           val |-> sign * DigitsValue(ip) ]
    ELSE [nan |-> TRUE, int |-> FALSE, val |-> 0]

\* SafeParse with the upper limit excluded.
SafeParseExclusiveMax(value, min, max) ==
  LET n == Number(value) IN
  [ success |-> ~n.nan /\ n.int /\ n.val >= min /\ n.val < max,
    data |-> n.val ]

\* z.coerce.number().int().min(min).max(max).safeParse(value)
SafeParse(value, min, max) ==
  LET n == Number(value) IN
  [ success |-> ~n.nan /\ n.int /\ n.val >= min /\ n.val <= max,
    data |-> n.val ]

\* Number.prototype.toString() of an integer.
RECURSIVE NumberToString(_)
NumberToString(n) ==
  IF n < 0 THEN <<"-">> \o NumberToString(-n)
  ELSE IF n < 10 THEN <<DigitChar(n)>>
  ELSE NumberToString(n \div 10) \o <<DigitChar(n % 10)>>

BoolString(b) == IF b THEN <<"t", "r", "u", "e">> ELSE <<"f", "a", "l", "s", "e">>

\* JSON.stringify of a ProxySetting, in the order of its keys.  Of the
\* fields of a ProxySetting the model carries on, server and http; https is
\* handled as http is, username and password as server is.
Stringify(f) ==
  <<"{", "on", ":">> \o BoolString(f.on)
    \o <<",", "server", ":", "''">> \o f.server \o <<"''">>
    \o <<",", "http", ":">> \o BoolString(f.http) \o <<"}">>

\* proxySetting.on, read back from the stored JSON.
StoredProxyOn(json) == Len(json) >= 4 /\ json[4] = "t"


PromptsNext ==
  \/ \E a \in NewAliases : OnCreateSubmit(a)
  \/ \E i \in 1..Len(promptsCache.data) : OnEditClick(i)
  \/ \E a \in Aliases : OnEditSubmit(a)
  \/ OnDeleteClick
  \/ ListPromptsFetch
  \/ \E i \in 1..Len(calls) : CreatorOnSuccess(i)
  \/ \E i \in 1..Len(calls) : CreatorOnError(i)
  \/ \E i \in 1..Len(calls) : UpdaterOnSuccess(i)
  \/ \E i \in 1..Len(calls) : UpdaterOnError(i)
  \/ \E i \in 1..Len(calls) : DeleterOnSuccess(i)
  \/ \E i \in 1..Len(calls) : DeleterOnError(i)
  \/ \E i \in 1..Len(calls) : ListPromptsOnSuccess(i)
  \/ \E i \in 1..Len(calls) : ListPromptsOnError(i)
  \/ \E i \in 1..Len(calls) : GatewayError(i)
  \/ \E i \in 1..Len(calls) : GatewayCreatePrompt(i)
  \/ \E i \in 1..Len(calls) : GatewayUpdatePrompt(i)
  \/ \E i \in 1..Len(calls) : GatewayDeletePrompt(i)
  \/ \E i \in 1..Len(calls) : GatewayListPrompts(i)


\* ------------------------------------------------------------ settings page
Languages == { <<"e", "n">>, <<"z", "h", "-", "H", "a", "n", "s">> }
Themes ==
  { <<"d", "a", "r", "k">>, <<"l", "i", "g", "h", "t">>,
    <<"s", "y", "s", "t", "e", "m">> }
Names == { <<>>, <<"B", "o", "b">> }
Servers == { <<>>, <<"h">> }

\* The characters of the inputs typed into the numeric fields.
Alphabet == {"5", " ", "a"}

RECURSIVE StringsUpTo(_)
StringsUpTo(n) ==
  IF n = 0 THEN { <<>> }
  ELSE LET shorter == StringsUpTo(n - 1) IN
       shorter \cup { Append(s, c) : s \in shorter, c \in Alphabet }

\* Inputs at and around the limits of the two fields.
LimitInputs ==
  { <<"0">>, <<"1">>, <<".">>, <<"+", "5">>, <<"-", "1">>, <<"0", "5">>, <<" ", " ">>,
    <<" ", "5", " ">>, <<"1", ".", "5">>, <<"5", ".", "0">>, <<"5", "a">>,
    <<"6", "5", "5", "3", "5">>, <<"6", "5", "5", "3", "6">>,
    <<"1", "0", "0", "0", "0", "0">> }

Inputs == StringsUpTo(MaxInputLen) \cup LimitInputs

\* t('error:validation:invalid-int-minmax', ...)
InvalidIntMinMax == "invalid-int-minmax"

\* useAppStateStore: state.updateSetting({key, value})
UpdateSetting(store, key, value) == [store EXCEPT ![key] = value]

\* proxySchema: nothing is required of a proxy that is off.
ProxyValid(f) == ~f.on \/ (f.server # <<>> /\ f.http)

UpsertCall(key, value) == NewCall("upsertSetting", 0, "", key, value)

\* SettingLanguage: Select onValueChange
LanguageSelect(v) ==
  /\ view = "language"
  /\ languageRef' = v
  /\ UNCHANGED << promptVars, remoteVars, conversationVars, dialogVars,
                  view, settings, themeRef, ctxError, maxError, proxyForm,
                  calls >>

\* SettingLanguage.onSaveClick
LanguageSave ==
  /\ view = "language"
  /\ Dispatch(UpsertCall(SETTING_DISPLAY_LANGUAGE, languageRef))
  /\ UNCHANGED << promptVars, settingVars, remoteVars, conversationVars,
                  dialogVars >>

\* SettingTheme: Select onValueChange
ThemeSelect(v) ==
  /\ view = "theme"
  /\ themeRef' = v
  /\ UNCHANGED << promptVars,
                  remoteVars, conversationVars, dialogVars, view, settings, languageRef, ctxError,
                  maxError, proxyForm, calls >>

\* SettingTheme.onSaveClick
ThemeSave ==
  /\ view = "theme"
  /\ Dispatch(UpsertCall(SETTING_DISPLAY_THEME, themeRef))
  /\ UNCHANGED << promptVars, settingVars, remoteVars, conversationVars,
                  dialogVars >>

\* SettingName.onSaveClick, value the text of the input
NameSave(value) ==
  /\ view = "name"
  /\ Dispatch(UpsertCall(SETTING_PROFILE_NAME, value))
  /\ UNCHANGED << promptVars, settingVars, remoteVars, conversationVars,
                  dialogVars >>

\* SettingContextLength.onSaveClick, value the text of the input
ContextLengthSave(value) ==
  LET validation == SafeParse(value, CTX_MIN, CTX_MAX) IN
  /\ view = "contextLength"
  /\ IF ~validation.success
       THEN /\ ctxError' = InvalidIntMinMax
            /\ UNCHANGED calls
       ELSE /\ Dispatch(UpsertCall(SETTING_MODELS_CONTEXT_LENGTH,
                                   NumberToString(validation.data)))
            /\ UNCHANGED ctxError
  /\ UNCHANGED << promptVars,
                  remoteVars, conversationVars, dialogVars, view, settings, languageRef, themeRef,
                  maxError, proxyForm >>

\* SettingMaxTokens.onSaveClick, value the text of the input
MaxTokensSave(value) ==
  LET validation == SafeParse(value, TOKENS_MIN, TOKENS_MAX) IN
  /\ view = "maxTokens"
  /\ IF ~validation.success
       THEN /\ maxError' = InvalidIntMinMax
            /\ UNCHANGED calls
       ELSE /\ Dispatch(UpsertCall(SETTING_MODELS_MAX_TOKENS,
                                   NumberToString(validation.data)))
            /\ UNCHANGED maxError
  /\ UNCHANGED << promptVars,
                  remoteVars, conversationVars, dialogVars, view, settings, languageRef, themeRef,
                  ctxError, proxyForm >>

\* ProxyAutoSave saving when the switch goes on instead of off.
ProxyAutoSaveWhenOn(stored, form) ==
  IF StoredProxyOn(stored) /\ form.on
    THEN Dispatch(UpsertCall(SETTING_NETWORK_PROXY, Stringify(form)))
    ELSE UNCHANGED calls

\* SettingProxy: the effect on [proxySetting.on, useProxy], which saves the
\* form as it stands when the proxy in use is switched off.
ProxyAutoSave(stored, form) ==
  IF StoredProxyOn(stored) /\ ~form.on
    THEN Dispatch(UpsertCall(SETTING_NETWORK_PROXY, Stringify(form)))
    ELSE UNCHANGED calls

\* SettingProxy: the Switch's onCheckedChange, then the effect.
ProxySwitch ==
  /\ view = "proxy"
  /\ proxyForm' = [proxyForm EXCEPT !.on = ~@]
  /\ ProxyAutoSave(settings[SETTING_NETWORK_PROXY], proxyForm')
  /\ UNCHANGED << promptVars,
                  remoteVars, conversationVars, dialogVars, view, settings, languageRef, themeRef,
                  ctxError, maxError >>

\* SettingProxy: a field of the form is edited; the fields are rendered
\* while useProxy holds.
ProxyEdit(f) ==
  /\ view = "proxy"
  /\ proxyForm.on
  /\ f.on = proxyForm.on
  /\ f # proxyForm
  /\ proxyForm' = f
  /\ UNCHANGED << promptVars,
                  remoteVars, conversationVars, dialogVars, view, settings, languageRef, themeRef,
                  ctxError, maxError, calls >>

\* SettingProxy: form.handleSubmit(onSubmit) behind the Save button, which
\* is rendered while useProxy holds.
ProxySubmit ==
  /\ view = "proxy"
  /\ proxyForm.on
  /\ IF ProxyValid(proxyForm)
       THEN Dispatch(UpsertCall(SETTING_NETWORK_PROXY, Stringify(proxyForm)))
       ELSE UNCHANGED calls
  /\ UNCHANGED << promptVars, settingVars, remoteVars, conversationVars,
                  dialogVars >>

\* The onSuccess callback each card hands to useUpsertSetting: the store
\* after it has run.
UpsertCallback(key, store) ==
  CASE key = SETTING_DISPLAY_LANGUAGE ->
         UpdateSetting(store, SETTING_DISPLAY_LANGUAGE, languageRef)
    [] key = SETTING_DISPLAY_THEME ->
         UpdateSetting(store, SETTING_DISPLAY_THEME, themeRef)
    [] key = SETTING_NETWORK_PROXY ->
         UpdateSetting(store, SETTING_NETWORK_PROXY, Stringify(proxyForm))
    [] OTHER -> store

\* The writes of the store that callback makes.
UpsertCallbackWrites(key) ==
  IF key \in { SETTING_DISPLAY_LANGUAGE, SETTING_DISPLAY_THEME,
               SETTING_NETWORK_PROXY }
    THEN 1 ELSE 0

\* useUpsertSetting onSuccess
UpsertOnSuccess(i) ==
  /\ Replied(i) /\ calls[i].op = "upsertSetting" /\ calls[i].ok
  /\ settings' = UpsertCallback(calls[i].key, settings)
  /\ calls' =
       [calls EXCEPT ![i] =
          Signal(Handled(@, UpsertCallbackWrites(calls[i].key)), 1, 0)]
  /\ UNCHANGED << promptVars,
                  remoteVars, conversationVars, dialogVars, view, languageRef, themeRef, ctxError,
                  maxError, proxyForm >>

\* UpsertOnError running the card's onSuccess callback as well.
UpsertOnErrorRunsCallback(i) ==
  /\ Replied(i) /\ calls[i].op = "upsertSetting" /\ ~calls[i].ok
  /\ settings' = UpsertCallback(calls[i].key, settings)
  /\ calls' = [calls EXCEPT ![i] = Signal(Handled(@, 0), 1, 1)]
  /\ UNCHANGED << promptVars,
                  remoteVars, conversationVars, dialogVars, view, languageRef, themeRef, ctxError,
                  maxError, proxyForm >>

\* useUpsertSetting onError
UpsertOnError(i) ==
  /\ Replied(i) /\ calls[i].op = "upsertSetting" /\ ~calls[i].ok
  /\ calls' = [calls EXCEPT ![i] = Signal(Handled(@, 0), 1, 1)]
  /\ UNCHANGED << promptVars, settingVars, remoteVars, conversationVars,
                  dialogVars >>

\* upsertSetting(key, value) -> Setting
GatewayUpsertSetting(i) ==
  /\ Sent(i) /\ calls[i].op = "upsertSetting"
  /\ calls' = [calls EXCEPT ![i] = Reply(@, TRUE, 0, "", <<>>)]
  /\ UNCHANGED << promptVars, settingVars, remoteVars, conversationVars,
                  dialogVars >>

ProxySettings == [on : BOOLEAN, server : Servers, http : BOOLEAN]

SettingsNext ==
  \/ \E v \in Languages : LanguageSelect(v)
  \/ LanguageSave
  \/ \E v \in Themes : ThemeSelect(v)
  \/ ThemeSave
  \/ \E v \in Names : NameSave(v)
  \/ \E v \in Inputs : ContextLengthSave(v)
  \/ \E v \in Inputs : MaxTokensSave(v)
  \/ ProxySwitch
  \/ \E f \in ProxySettings : ProxyEdit(f)
  \/ ProxySubmit
  \/ \E i \in 1..Len(calls) : UpsertOnSuccess(i)
  \/ \E i \in 1..Len(calls) : UpsertOnError(i)
  \/ \E i \in 1..Len(calls) : GatewayUpsertSetting(i)

\* --------------------------------------------------- remote model selector
PROVIDER_OPENAI == "OpenAI"
PROVIDER_AZURE == "Azure"
Providers == { PROVIDER_OPENAI, PROVIDER_AZURE }
ApiKeys == { <<>>, <<"A">> }

\* The models a provider lists: ids, and created timestamps of which two are
\* equal.
RemoteModel(id, created) == [id |-> id, created |-> created]
RemoteModels ==
  { RemoteModel(<<"m", "1">>, 100), RemoteModel(<<"m", "2">>, 200),
    RemoteModel(<<"m", "3">>, 200) }

RECURSIVE ListsUpTo(_)
ListsUpTo(n) ==
  IF n = 0 THEN { <<>> }
  ELSE LET shorter == ListsUpTo(n - 1) IN
       shorter \cup
         { Append(l, m) :
             l \in { x \in shorter : Len(x) = n - 1 }, m \in RemoteModels }

\* The lists listRemoteModels returns: no model twice.
RemoteLists ==
  { l \in ListsUpTo(MaxModels) :
      \A j, k \in 1..Len(l) : l[j].id = l[k].id => j = k }

\* Array.prototype.sort is stable: m goes behind the entries that the
\* comparator does not put behind it.
RECURSIVE InsertAscending(_, _)
InsertAscending(sorted, m) ==
  IF sorted = <<>> THEN << m >>
  ELSE IF m.created - Head(sorted).created < 0
    THEN << m >> \o sorted
    ELSE << Head(sorted) >> \o InsertAscending(Tail(sorted), m)

RECURSIVE SelectAscending(_)
SelectAscending(raw) ==
  IF raw = <<>> THEN <<>>
  ELSE InsertAscending(SelectAscending(SubSeq(raw, 1, Len(raw) - 1)),
                       raw[Len(raw)])

\* The insertion of a stable sort under (a, b) => b.created - a.created.
RECURSIVE Insert(_, _)
Insert(sorted, m) ==
  IF sorted = <<>> THEN << m >>
  ELSE IF Head(sorted).created - m.created < 0
    THEN << m >> \o sorted
    ELSE << Head(sorted) >> \o Insert(Tail(sorted), m)

\* select: (raw) => raw.sort((a, b) => b.created - a.created)
RECURSIVE Select(_)
Select(raw) ==
  IF raw = <<>> THEN <<>>
  ELSE Insert(Select(SubSeq(raw, 1, Len(raw) - 1)), raw[Len(raw)])

\* The query cached under LIST_REMOTE_MODELS_KEY: its status, its data as
\* select returns it, and the provider and the key the data was fetched with.
NoQuery ==
  [status |-> "none", data |-> <<>>, provider |-> "", apiKey |-> <<>>]
QuerySuccess(list, p, k) ==
  [status |-> "success", data |-> list, provider |-> p, apiKey |-> k]
QueryError == [NoQuery EXCEPT !.status = "error"]

\* A fetch of the list is at the gateway or on its way back.
IsFetching ==
  \E i \in 1..Len(calls) :
    calls[i].op = "listRemoteModels" /\ calls[i].st \in {"sent", "replied"}

\* isLoading: the query has no data and a fetch of it is running.
IsLoading == remoteModels.status = "none" /\ IsFetching

\* t('error:validation:empty-api-key')
EmptyApiKey == "empty-api-key"

\* useListRemoteModelsQuery: an enabled query without data that is not being
\* fetched is fetched with the provider p and the key k of the render.
QueryFetch(on, p, k) ==
  IF on /\ remoteModels.status = "none" /\ ~IsFetching
    THEN Dispatch(NewCall("listRemoteModels", 0, "", p, k))
    ELSE UNCHANGED calls

\* DefaultSelection without the test of the field's value.
DefaultSelectionAlways(q, fieldValue) ==
  IF q.status = "success" /\ Len(q.data) > 0
    THEN q.data[1].id
    ELSE fieldValue

\* The model field after a render with the data q and the effect on
\* [data, form]: the FormField's defaultValue stands in for an undefined
\* value, the effect for an undefined or empty one.
DefaultSelection(q, fieldValue) ==
  IF q.status = "success" /\ Len(q.data) > 0
       /\ (fieldValue = Undefined \/ Len(fieldValue) = 0)
    THEN q.data[1].id
    ELSE fieldValue

\* render() reads data[0].id of a list that has no first entry.
RenderThrows(q) == q.status = "success" /\ Len(q.data) = 0

\* onClick of the Load models button, which render() shows when the query
\* neither loads nor has data.
OnClick ==
  /\ view = "remote" /\ ~renderError
  /\ ~IsLoading /\ data.status # "success"
  /\ IF Len(apiKey) = 0
       THEN /\ apiKeyError' = EmptyApiKey
            /\ UNCHANGED << enabled, calls >>
       ELSE /\ enabled' = TRUE
            /\ QueryFetch(TRUE, provider, apiKey)
            /\ UNCHANGED apiKeyError
  /\ UNCHANGED << promptVars, settingVars, conversationVars, dialogVars,
                  provider, apiKey, remoteModels,
                  data, modelField, renderError >>

\* The parent renders the selector again: the query is read, and fetched if
\* it has to be; then the effect on [data, form] runs.
Render ==
  /\ view = "remote" /\ ~renderError
  /\ QueryFetch(enabled, provider, apiKey)
  /\ data' = remoteModels
  /\ modelField' = DefaultSelection(remoteModels, modelField)
  /\ UNCHANGED << promptVars, settingVars, conversationVars, dialogVars,
                  provider, apiKey, enabled,
                  remoteModels, apiKeyError, renderError >>

\* RemoveQueries leaving a fetch that is running to run.
RemoveQueriesKeepsFetch(cs) == cs

\* queryClient.removeQueries({queryKey: LIST_REMOTE_MODELS_KEY, exact: true}):
\* the query leaves the cache, and a fetch of it that is running is
\* cancelled.
RemoveQueries(cs) ==
  [ i \in 1..Len(cs) |->
      IF cs[i].op = "listRemoteModels" /\ cs[i].st \in {"sent", "replied"}
        THEN [Handled(cs[i], 0) EXCEPT !.st = "cancelled"]
        ELSE cs[i] ]

\* The parent passes another provider or another key: the selector renders
\* with what the query holds, then the effect on [provider, apiKey] removes
\* the query.
PropsChange(p, k) ==
  /\ view = "remote" /\ ~renderError
  /\ << p, k >> # << provider, apiKey >>
  /\ provider' = p
  /\ apiKey' = k
  /\ data' = remoteModels
  /\ remoteModels' = NoQuery
  /\ calls' = RemoveQueries(calls)
  /\ UNCHANGED << promptVars, settingVars, conversationVars, dialogVars,
                  enabled, modelField, apiKeyError,
                  renderError >>

\* The Select's onValueChange: the user picks a model of the list shown.
OnValueChange(k) ==
  /\ view = "remote" /\ ~renderError
  /\ data.status = "success" /\ k \in 1..Len(data.data)
  /\ modelField' = data.data[k].id
  /\ UNCHANGED << promptVars, settingVars, conversationVars, dialogVars,
                  provider, apiKey, enabled,
                  remoteModels, data, apiKeyError, renderError, calls >>

\* The list arrives: the query holds it as select returns it, and the
\* selector, unless it has been torn down, renders with it and the effect on
\* [data, form] runs.
ListRemoteModelsOnSuccess(i) ==
  /\ Replied(i) /\ calls[i].op = "listRemoteModels" /\ calls[i].ok
  /\ remoteModels' =
       QuerySuccess(Select(calls[i].resList), calls[i].key, calls[i].value)
  /\ data' = IF view = "remote" THEN remoteModels' ELSE data
  /\ renderError' = (view = "remote" /\ RenderThrows(remoteModels'))
  /\ modelField' =
       IF view = "remote" /\ ~renderError'
         THEN DefaultSelection(remoteModels', modelField)
         ELSE modelField
  /\ calls' = [calls EXCEPT ![i] = Handled(@, 1)]
  /\ UNCHANGED << promptVars, settingVars, conversationVars, dialogVars,
                  provider, apiKey, enabled,
                  apiKeyError >>

\* The fetch fails: the query is in error, and render() shows the button.
ListRemoteModelsOnError(i) ==
  /\ Replied(i) /\ calls[i].op = "listRemoteModels" /\ ~calls[i].ok
  /\ remoteModels' = QueryError
  /\ data' = IF view = "remote" THEN QueryError ELSE data
  /\ calls' = [calls EXCEPT ![i] = Handled(@, 0)]
  /\ UNCHANGED << promptVars, settingVars, conversationVars, dialogVars,
                  provider, apiKey, enabled,
                  modelField, apiKeyError, renderError >>

\* listRemoteModels(provider, apiKey) -> sequence of {id, created}
GatewayListRemoteModels(i) ==
  /\ Sent(i) /\ calls[i].op = "listRemoteModels"
  /\ \E list \in RemoteLists :
       calls' = [calls EXCEPT ![i] = Reply(@, TRUE, 0, "", list)]
  /\ UNCHANGED << promptVars, settingVars, remoteVars, conversationVars,
                  dialogVars >>

RemoteNext ==
  \/ OnClick
  \/ Render
  \/ \E p \in Providers, k \in ApiKeys : PropsChange(p, k)
  \/ \E k \in 1..Len(data.data) : OnValueChange(k)
  \/ \E i \in 1..Len(calls) : ListRemoteModelsOnSuccess(i)
  \/ \E i \in 1..Len(calls) : ListRemoteModelsOnError(i)
  \/ \E i \in 1..Len(calls) : GatewayListRemoteModels(i)

\* -------------------------------------------------- new conversation form
\* The messages typed into the form.
Messages == { <<>>, <<"h", "i">> }

\* conversationFormSchema: the message is not empty.
ConversationValid(message) == Len(message) > 0

\* The query cached under LIST_CONVERSATIONS_KEY: whether it holds the list,
\* and whether it has been invalidated since the list was fetched.
ConversationsQuery(status, isInvalidated) ==
  [status |-> status, isInvalidated |-> isInvalidated]

\* queryClient.invalidateQueries({queryKey: LIST_CONVERSATIONS_KEY})
InvalidateQueries(q) == [q EXCEPT !.isInvalidated = TRUE]

ConversationsFetching ==
  \E i \in 1..Len(calls) :
    calls[i].op = "listConversations" /\ calls[i].st \in {"sent", "replied"}

\* NewConversationForm.onSubmit: an empty message is refused with a warning.
OnSubmit(message) ==
  /\ view = "conversation"
  /\ IF ConversationValid(message)
       THEN Dispatch(NewCall("createConversation", 0, "", "", message))
       ELSE UNCHANGED calls
  /\ UNCHANGED << promptVars, settingVars, remoteVars, conversationVars,
                  dialogVars >>

\* onSuccess of createConversationMutation.mutate: navigate to the
\* conversation, which takes the form off the screen, and invalidate the
\* list of conversations.  A callback handed to mutate runs only while the
\* component that called mutate is mounted.
CreateConversationOnSuccess(i) ==
  /\ Replied(i) /\ calls[i].op = "createConversation" /\ calls[i].ok
  /\ view = "conversation"
  /\ location' = calls[i].resId
  /\ view' = TornDown
  /\ conversations' = InvalidateQueries(conversations)
  /\ calls' = [calls EXCEPT ![i] = Handled(@, 0)]
  /\ UNCHANGED << promptVars, remoteVars, dialogVars, settings, languageRef,
                  themeRef,
                  ctxError, maxError, proxyForm >>

\* The response to createConversation arrives and no callback runs: mutate
\* was given no onError, and the form of a successful call is gone.
CreateConversationSettled(i) ==
  /\ Replied(i) /\ calls[i].op = "createConversation"
  /\ ~calls[i].ok \/ view # "conversation"
  /\ calls' = [calls EXCEPT ![i] = Handled(@, 0)]
  /\ UNCHANGED << promptVars, settingVars, remoteVars, conversationVars,
                  dialogVars >>

\* The list of conversations is read: a query without the list, or one that
\* has been invalidated, is fetched unless it is being fetched.
ConversationsRead ==
  /\ location # 0 \/ view = "conversation"
  /\ conversations.status = "none" \/ conversations.isInvalidated
  /\ ~ConversationsFetching
  /\ Dispatch(NewCall("listConversations", 0, "", "", <<>>))
  /\ UNCHANGED << promptVars, settingVars, remoteVars, conversationVars,
                  dialogVars >>

ListConversationsOnSuccess(i) ==
  /\ Replied(i) /\ calls[i].op = "listConversations" /\ calls[i].ok
  /\ conversations' = ConversationsQuery("success", FALSE)
  /\ calls' = [calls EXCEPT ![i] = Handled(@, 1)]
  /\ UNCHANGED << promptVars, settingVars, remoteVars, dialogVars, location >>

ListConversationsOnError(i) ==
  /\ Replied(i) /\ calls[i].op = "listConversations" /\ ~calls[i].ok
  /\ calls' = [calls EXCEPT ![i] = Handled(@, 0)]
  /\ UNCHANGED << promptVars, settingVars, remoteVars, conversationVars,
                  dialogVars >>

\* createConversation(UnsavedConversation) -> Conversation: the gateway
\* assigns the id.
GatewayCreateConversation(i) ==
  /\ Sent(i) /\ calls[i].op = "createConversation"
  /\ gwNextId' = gwNextId + 1
  /\ calls' = [calls EXCEPT ![i] = Reply(@, TRUE, gwNextId, "", <<>>)]
  /\ UNCHANGED << promptsCache, editDialog, gwPrompts, settingVars,
                  remoteVars, conversationVars, dialogVars >>

GatewayListConversations(i) ==
  /\ Sent(i) /\ calls[i].op = "listConversations"
  /\ calls' = [calls EXCEPT ![i] = Reply(@, TRUE, 0, "", <<>>)]
  /\ UNCHANGED << promptVars, settingVars, remoteVars, conversationVars,
                  dialogVars >>

ConversationNext ==
  \/ \E m \in Messages : OnSubmit(m)
  \/ ConversationsRead
  \/ \E i \in 1..Len(calls) : CreateConversationOnSuccess(i)
  \/ \E i \in 1..Len(calls) : CreateConversationSettled(i)
  \/ \E i \in 1..Len(calls) : ListConversationsOnSuccess(i)
  \/ \E i \in 1..Len(calls) : ListConversationsOnError(i)
  \/ \E i \in 1..Len(calls) : GatewayCreateConversation(i)
  \/ \E i \in 1..Len(calls) : GatewayListConversations(i)

\* The view is taken off the screen: the user navigates away, with the calls
\* that are in flight still in flight.
Teardown ==
  /\ view \in Views
  /\ view' = TornDown
  /\ UNCHANGED << promptVars, remoteVars, conversationVars, dialogVars,
                  settings, languageRef, themeRef, ctxError, maxError,
                  proxyForm, calls >>

\* ------------------------------------------------------- new model dialog
\* What the dialog is opened with: a provider, a tag that is none, or
\* nothing.
OpenedWith == Providers \cup { "Other", "undefined" }

\* The texts typed into a field of the form.
FieldValues == { <<>>, <<"x">> }

NewOpenAIModel(apiKeyValue, modelValue) ==
  [provider |-> PROVIDER_OPENAI, apiKey |-> apiKeyValue, model |-> modelValue]

NewAzureModel(apiKeyValue, endpointValue, apiVersionValue, deploymentIdValue) ==
  [ provider |-> PROVIDER_AZURE, apiKey |-> apiKeyValue,
    endpoint |-> endpointValue, apiVersion |-> apiVersionValue,
    deploymentId |-> deploymentIdValue ]

\* RenderForm with the forms of the two providers exchanged.
RenderFormExchanged(p) ==
  IF p = PROVIDER_OPENAI
    THEN NewAzureModel(<<>>, <<>>, <<>>, <<>>)
    ELSE NewOpenAIModel(<<>>, <<>>)

\* renderForm: the model the form of provider p starts from.
RenderForm(p) ==
  IF p = PROVIDER_OPENAI
    THEN NewOpenAIModel(<<>>, <<>>)
    ELSE NewAzureModel(<<>>, <<>>, <<>>, <<>>)

\* The fields of a model that the user fills in.
Editable(model) == DOMAIN model \ {"provider"}

\* The schema of the form: no field is left empty.
ModelValid(model) == \A field \in Editable(model) : Len(model[field]) > 0

\* open(defaultValue): the dialog shows the form of the provider.  The form
\* is mounted, with the model renderForm gives it, unless a form of the same
\* kind is on the screen already.
DialogOpen(p) ==
  /\ view = "modelDialog"
  /\ dialogProvider' = p
  /\ showDialog' = TRUE
  /\ modelForm' =
       IF showDialog /\ RenderForm(p).provider = modelForm.provider
         THEN modelForm
         ELSE RenderForm(p)
  /\ UNCHANGED << promptVars, settingVars, remoteVars, conversationVars,
                  submitted, calls >>

\* close()
DialogClose ==
  /\ view = "modelDialog"
  /\ dialogProvider' = "undefined"
  /\ showDialog' = FALSE
  /\ modelForm' = RenderForm("undefined")
  /\ UNCHANGED << promptVars, settingVars, remoteVars, conversationVars,
                  submitted, calls >>

\* The Cancel button: onOpenChange(false).  The form leaves the screen with
\* the dialog's content.
DialogCancel ==
  /\ view = "modelDialog" /\ showDialog
  /\ showDialog' = FALSE
  /\ modelForm' = RenderForm(dialogProvider)
  /\ UNCHANGED << promptVars, settingVars, remoteVars, conversationVars,
                  dialogProvider, submitted, calls >>

\* The user types value into a field of the form.
FormEdit(field, value) ==
  /\ view = "modelDialog" /\ showDialog
  /\ field \in Editable(modelForm)
  /\ modelForm' = [modelForm EXCEPT ![field] = value]
  /\ UNCHANGED << promptVars, settingVars, remoteVars, conversationVars,
                  showDialog, dialogProvider, submitted, calls >>

\* The Save button submits the form, which hands a valid model to
\* onFormSubmit: onSubmit(model), setShowDialog(false).
OnFormSubmit ==
  /\ view = "modelDialog" /\ showDialog
  /\ Len(submitted) < MaxSubmits
  /\ IF ModelValid(modelForm)
       THEN /\ submitted' = Append(submitted, modelForm)
            /\ showDialog' = FALSE
            /\ modelForm' = RenderForm(dialogProvider)
       ELSE UNCHANGED << submitted, showDialog, modelForm >>
  /\ UNCHANGED << promptVars, settingVars, remoteVars, conversationVars,
                  dialogProvider, calls >>

DialogNext ==
  \/ \E p \in OpenedWith : DialogOpen(p)
  \/ DialogClose
  \/ DialogCancel
  \/ \E field \in {"apiKey", "model", "endpoint", "apiVersion", "deploymentId"},
        value \in FieldValues : FormEdit(field, value)
  \/ OnFormSubmit

\* --------------------------------------------------------------------- Init
\* The proxy settings the gateway may hold when the page is opened.
StoredProxies ==
  { [on |-> FALSE, server |-> <<>>, http |-> FALSE],
    [on |-> TRUE, server |-> <<"h">>, http |-> TRUE] }

Init ==
  /\ view \in Views
  /\ promptsCache = NoData
  /\ editDialog = [open |-> FALSE, id |-> 0]
  /\ \E proxy \in StoredProxies :
       /\ settings =
            [ k \in SettingKeys |->
                CASE k = SETTING_DISPLAY_LANGUAGE -> <<"e", "n">>
                  [] k = SETTING_DISPLAY_THEME -> <<"s", "y", "s", "t", "e", "m">>
                  [] k = SETTING_NETWORK_PROXY -> Stringify(proxy)
                  [] OTHER -> Undefined ]
       /\ proxyForm = proxy
  /\ languageRef = <<"e", "n">>
  /\ themeRef = <<"s", "y", "s", "t", "e", "m">>
  /\ ctxError = ""
  /\ maxError = ""
  /\ gwPrompts = << Prompt(1, "a") >>
  /\ gwNextId = 2
  /\ provider = PROVIDER_OPENAI
  /\ apiKey \in (IF view = "remote" THEN ApiKeys ELSE { <<>> })
  /\ enabled \in (IF view = "remote" THEN BOOLEAN ELSE { FALSE })
  /\ remoteModels = NoQuery
  /\ data = NoQuery
  /\ modelField \in (IF view = "remote" THEN { Undefined, <<>> } ELSE { <<>> })
  /\ apiKeyError = ""
  /\ renderError = FALSE
  /\ conversations \in
       (IF view = "conversation"
          THEN { ConversationsQuery("none", FALSE),
                 ConversationsQuery("success", FALSE) }
          ELSE { ConversationsQuery("none", FALSE) })
  /\ location = 0
  /\ showDialog = FALSE
  /\ dialogProvider = "undefined"
  /\ modelForm = RenderForm("undefined")
  /\ submitted = <<>>
  /\ calls =
       IF view = "prompts"
         THEN << NewCall("listPrompts", 0, "", "", <<>>) >>
         ELSE <<>>

Next ==
  PromptsNext \/ SettingsNext \/ RemoteNext \/ ConversationNext \/ DialogNext
    \/ Teardown

Spec == Init /\ [][Next]_vars

\* ------------------------------------------------------------------ claims
\* The entity cache: the cached prompt collection and the cached settings.
EntityCache == << promptsCache, settings >>

\* The step in which the handler of call i runs, after a failure or after a
\* success of operation op.
ErrorHandled(i) ==
  Replied(i) /\ ~calls[i].ok /\ calls'[i].st = "done"
SuccessHandled(i, op) ==
  Replied(i) /\ calls[i].ok /\ calls[i].op = op /\ calls'[i].st = "done"

\* The step that dispatches a call, and the step in which the gateway fails
\* a call.
Dispatched == Len(calls') = Len(calls) + 1
Failed(i) == Sent(i) /\ calls'[i].st = "replied" /\ ~calls'[i].ok

CacheLen(cache) == IF cache.defined THEN Len(cache.data) ELSE 0
CacheIds(cache) == { cache.data[k].id : k \in 1..CacheLen(cache) }

\* C1: a gateway call that fails leaves the entity cache as it was: neither
\* the step that dispatches a call, nor the gateway's failing it, nor the
\* step in which its failure handler runs changes the cached prompts or the
\* cached settings.
C1_FailureLeavesCache ==
  [][ ( \/ Dispatched
        \/ \E i \in 1..Len(calls) : Failed(i) \/ ErrorHandled(i) )
      => EntityCache' = EntityCache ]_vars

\* C1 witness: a failed call's handler has run while the cache held prompts.
C1_Witness ==
  /\ CacheLen(promptsCache) > 0
  /\ \E i \in 1..Len(calls) : calls[i].st = "done" /\ ~calls[i].ok

\* C2: the success handler of createPrompt leaves the cached collection one
\* entry longer (an absent collection counting as empty), with an entry of
\* the id the gateway returned.
C2_CreateAddsOne ==
  [][ \A i \in 1..Len(calls) :
        SuccessHandled(i, "createPrompt") =>
          /\ CacheLen(promptsCache') = CacheLen(promptsCache) + 1
          /\ calls[i].resId \in CacheIds(promptsCache') ]_vars

\* C2 witness: the fetch of the list is still at the gateway and the handler
\* of a createPrompt has run: the cache, absent before, holds the created
\* prompt.
C2_Witness ==
  /\ Len(calls) = 2 /\ calls[1].st = "sent"
  /\ calls[2].st = "done" /\ calls[2].ok
  /\ promptsCache = Data(<< Prompt(2, "a") >>)

\* C3: the cached prompt collection never holds two entries of one id.
C3_UniqueIds ==
  \A j, k \in 1..CacheLen(promptsCache) :
    promptsCache.data[j].id = promptsCache.data[k].id => j = k

\* C4: the success handler of updatePrompt, given the prompt p returned,
\* leaves the collection as long as it was, with p in the place of every
\* entry of p's id and every other entry as it was, in its place.
C4_UpdateReplacesById ==
  [][ \A i \in 1..Len(calls) :
        SuccessHandled(i, "updatePrompt") =>
          /\ promptsCache'.defined = promptsCache.defined
          /\ CacheLen(promptsCache') = CacheLen(promptsCache)
          /\ \A k \in 1..CacheLen(promptsCache) :
               promptsCache'.data[k] =
                 IF promptsCache.data[k].id = calls[i].resId
                   THEN Prompt(calls[i].resId, calls[i].resAlias)
                   ELSE promptsCache.data[k] ]_vars

\* The entries of list whose id is not id, in their order.
RECURSIVE Without(_, _)
Without(list, id) ==
  IF list = <<>> THEN <<>>
  ELSE IF Head(list).id = id THEN Without(Tail(list), id)
  ELSE << Head(list) >> \o Without(Tail(list), id)

\* C5: the success handler of deletePrompt for id i leaves no entry of id i
\* in the cached collection, and the other entries as they were, in their
\* order.
C5_DeleteRemovesById ==
  [][ \A i \in 1..Len(calls) :
        SuccessHandled(i, "deletePrompt") =>
          /\ calls[i].resId = calls[i].id
          /\ calls[i].id \notin CacheIds(promptsCache')
          /\ promptsCache'.defined = promptsCache.defined
          /\ promptsCache'.data = Without(promptsCache.data, calls[i].id) ]_vars

\* C5 witness: a prompt has been deleted from a cache that keeps another.
C5_Witness ==
  /\ promptsCache.defined
  /\ CacheIds(promptsCache) = {2}
  /\ \A k \in 1..Len(gwPrompts) : gwPrompts[k].id # 1
  /\ \E i \in 1..Len(calls) :
       calls[i].st = "done" /\ calls[i].ok /\ calls[i].patches = 1

\* C6: the success handler of upsertSetting(key, value) leaves value under
\* key in the cached settings, and the other keys as they were.
C6_UpsertSetsByKey ==
  [][ \A i \in 1..Len(calls) :
        SuccessHandled(i, "upsertSetting") =>
          /\ settings'[calls[i].key] = calls[i].value
          /\ \A k \in SettingKeys \ {calls[i].key} :
               settings'[k] = settings[k] ]_vars

\* C7: the entity cache changes only in the step in which the handler of a
\* successful call runs, the handler of a call runs once, and it writes the
\* cache at most once, and not at all after a failure.
C7_PatchedAtMostOnce ==
  [][ /\ EntityCache' # EntityCache =>
           \E i \in 1..Len(calls) :
             /\ Replied(i) /\ calls[i].ok /\ calls'[i].st = "done"
             /\ \A j \in 1..Len(calls) \ {i} : calls'[j] = calls[j]
      /\ \A i \in 1..Len(calls) :
           calls[i].st = "done" => calls'[i] = calls[i]
      /\ \A i \in 1..Len(calls') :
           calls'[i].st = "done" =>
             /\ calls'[i].patches <= 1
             /\ ~calls'[i].ok => calls'[i].patches = 0 ]_vars

\* C7 witness: one call has patched the cache and another has failed.
C7_Witness ==
  \E i, j \in 1..Len(calls) :
    /\ calls[i].st = "done" /\ calls[i].ok /\ calls[i].patches = 1
    /\ calls[j].st = "done" /\ ~calls[j].ok /\ calls[j].patches = 0

\* An integer written in decimal: an optional sign and one digit or more.
Unsigned(v) == IF v # <<>> /\ Head(v) \in {"+", "-"} THEN Tail(v) ELSE v
IntegerLiteral(v) == Len(Unsigned(v)) >= 1 /\ AllDigits(Unsigned(v))
LiteralValue(v) ==
  (IF v # <<>> /\ Head(v) = "-" THEN -1 ELSE 1) * DigitsValue(Unsigned(v))

IntegerInputs == { v \in Inputs : IntegerLiteral(v) }

\* str is the decimal string of the natural number n.
IsDecimalOf(str, n) ==
  /\ Len(str) >= 1 /\ AllDigits(str)
  /\ Len(str) > 1 => str[1] # "0"
  /\ DigitsValue(str) = n

\* The step issues exactly one upsertSetting call, of key and of the decimal
\* string of n.
IssuesUpsertOf(key, n) ==
  /\ Len(calls') = Len(calls) + 1
  /\ SubSeq(calls', 1, Len(calls)) = calls
  /\ calls'[Len(calls')].op = "upsertSetting"
  /\ calls'[Len(calls')].st = "sent"
  /\ calls'[Len(calls')].key = key
  /\ IsDecimalOf(calls'[Len(calls')].value, n)

\* C8: Save of the context length with an integer outside [0, 65535], or of
\* the max tokens with an integer outside [1, 65535], sets the field's error
\* and issues no call; with an integer inside, it issues one upsertSetting
\* call that carries the integer's decimal string.
C8_IntegerBounds ==
  [][ \A v \in IntegerInputs :
          /\ ContextLengthSave(v) =>
               IF LiteralValue(v) \in 0..65535
                 THEN IssuesUpsertOf(SETTING_MODELS_CONTEXT_LENGTH,
                                     LiteralValue(v))
                 ELSE ctxError' # "" /\ calls' = calls
          /\ MaxTokensSave(v) =>
               IF LiteralValue(v) \in 1..65535
                 THEN IssuesUpsertOf(SETTING_MODELS_MAX_TOKENS,
                                     LiteralValue(v))
                 ELSE maxError' # "" /\ calls' = calls ]_vars

\* C8 witness: the context length card has rejected an input and has issued
\* a call for 65535.
C8_Witness ==
  /\ view = "contextLength"
  /\ ctxError = InvalidIntMinMax
  /\ \E i \in 1..Len(calls) :
       /\ calls[i].key = SETTING_MODELS_CONTEXT_LENGTH
       /\ calls[i].value = <<"6", "5", "5", "3", "5">>

\* An input that is not numeric: empty or white space, text with a character
\* that is no part of a number, or a number with a fraction.
NonNumeric(v) ==
  \/ \A k \in 1..Len(v) : v[k] = " "
  \/ \E k \in 1..Len(v) : v[k] \notin Digits \cup {"+", "-", ".", " "}
  \/ /\ \A k \in 1..Len(v) : v[k] \in Digits \cup {"."}
     /\ \E k \in 1..Len(v) :
          /\ v[k] = "."
          /\ \E j \in (k + 1)..Len(v) : v[j] \in Digits \ {"0"}

\* C9: Save of the context length or of the max tokens with an input that is
\* not numeric sets the field's error and issues no call.
C9_NonNumericRejected ==
  [][ \A v \in Inputs :
        NonNumeric(v) =>
          /\ ContextLengthSave(v) =>
               ctxError' = InvalidIntMinMax /\ calls' = calls
          /\ MaxTokensSave(v) =>
               maxError' = InvalidIntMinMax /\ calls' = calls ]_vars

\* C10: when the stored proxy setting is on and the form's switch goes from
\* on to off, that step issues an upsertSetting call for the proxy key that
\* carries the form's values with on = false, whatever those values are.
C10_AutoSaveOnSwitchOff ==
  [][ ( /\ view = "proxy"
        /\ StoredProxyOn(settings[SETTING_NETWORK_PROXY])
        /\ proxyForm.on /\ ~proxyForm'.on )
      => /\ Len(calls') = Len(calls) + 1
         /\ SubSeq(calls', 1, Len(calls)) = calls
         /\ calls'[Len(calls')].op = "upsertSetting"
         /\ calls'[Len(calls')].st = "sent"
         /\ calls'[Len(calls')].key = SETTING_NETWORK_PROXY
         /\ calls'[Len(calls')].value =
              Stringify([proxyForm EXCEPT !.on = FALSE])
         /\ proxyForm' = [proxyForm EXCEPT !.on = FALSE] ]_vars

\* C10 witness: the stored proxy is on, the form is off, and a call is at the
\* gateway with on = false and a server left empty, which Save would refuse
\* for a proxy that is on.
C10_Witness ==
  /\ StoredProxyOn(settings[SETTING_NETWORK_PROXY])
  /\ ~proxyForm.on
  /\ \E i \in 1..Len(calls) :
       /\ calls[i].st = "sent"
       /\ calls[i].key = SETTING_NETWORK_PROXY
       /\ calls[i].value =
            Stringify([on |-> FALSE, server |-> <<>>, http |-> TRUE])

\* The number of places of list that hold m.
Count(list, m) == Cardinality({ k \in 1..Len(list) : list[k] = m })

IsPermutation(a, b) ==
  /\ Len(a) = Len(b)
  /\ \A k \in 1..Len(a) : Count(a, a[k]) = Count(b, a[k])

Descending(list) ==
  \A j, k \in 1..Len(list) : j < k => list[j].created >= list[k].created

\* C11: when a list that listRemoteModels returned is handled with the
\* selector on the screen, the list the selector offers holds the entries of
\* the returned list, each as often as the returned list holds it, with no
\* entry before one created later.
C11_OfferedIsSortedPermutation ==
  [][ \A i \in 1..Len(calls) :
        (SuccessHandled(i, "listRemoteModels") /\ view = "remote") =>
          /\ data'.status = "success"
          /\ IsPermutation(data'.data, calls[i].resList)
          /\ Descending(data'.data) ]_vars

\* C11 witness: the selector offers two models, the newer one first.
C11_Witness ==
  /\ data.status = "success"
  /\ Len(data.data) = 2
  /\ data.data[1].created > data.data[2].created

\* The model field holds no selection: it is undefined or empty.
NoSelection(fieldValue) == fieldValue = Undefined \/ Len(fieldValue) = 0

\* id is the id of an entry of list that no entry of list is newer than.
IsNewestOf(id, list) ==
  \E k \in 1..Len(list) :
    /\ list[k].id = id
    /\ \A j \in 1..Len(list) : list[k].created >= list[j].created

\* C12: when a list that is not empty arrives with the selector on the
\* screen, a model field without a selection is given the id of the first
\* entry offered, a newest entry of the list, and a model field with a
\* selection keeps it.
C12_DefaultSelection ==
  [][ \A i \in 1..Len(calls) :
        ( /\ SuccessHandled(i, "listRemoteModels")
          /\ view = "remote"
          /\ Len(calls[i].resList) > 0 ) =>
          IF NoSelection(modelField)
            THEN /\ modelField' = data'.data[1].id
                 /\ IsNewestOf(modelField', calls[i].resList)
            ELSE modelField' = modelField ]_vars

\* C12 witness: a second list has arrived, without the model selected from
\* the first, and the selection stands.
C12_Witness ==
  /\ Len(calls) = 2 /\ calls[2].st = "done" /\ calls[2].ok
  /\ data.status = "success" /\ Len(data.data) > 0
  /\ ~NoSelection(modelField)
  /\ \A k \in 1..Len(data.data) : data.data[k].id # modelField

\* The query q holds no list, or a list that was fetched with the provider
\* and the key that are current.
FetchedWithCurrent(q) ==
  q.status = "success" => q.provider = provider /\ q.apiKey = apiKey

\* The step issues a fetch of the remote models.
FetchIssued ==
  /\ Len(calls') = Len(calls) + 1
  /\ calls'[Len(calls')].op = "listRemoteModels"

\* C13: a list fetched with one provider and key is neither held by the
\* query nor shown by the selector while another provider or key is current,
\* and a fetch is issued only when the query holds no list.
C13_NoStaleList ==
  /\ [](FetchedWithCurrent(remoteModels) /\ FetchedWithCurrent(data))
  /\ [][ FetchIssued => remoteModels.status # "success" ]_vars

\* The step removes the query of the remote models: the provider or the key
\* changes.
RemoteInvalidated == << provider', apiKey' >> # << provider, apiKey >>

\* The step adds exactly one call, of operation op, to the calls.
IssuesOne(op) ==
  /\ Len(calls') = Len(calls) + 1
  /\ SubSeq(calls', 1, Len(calls)) = calls
  /\ calls'[Len(calls')].op = op
  /\ calls'[Len(calls')].st = "sent"

Mutations ==
  { "createPrompt", "updatePrompt", "deletePrompt", "upsertSetting",
    "createConversation" }

\* C15: when the response to a mutation, a success or an error, is handled
\* after the view that issued it has been torn down, the handler leaves the
\* entity cache as it was and gives no signal: no notification and no log
\* entry.
C15_StaleResponseDropped ==
  [][ \A i \in 1..Len(calls) :
        ( /\ view = TornDown
          /\ Replied(i) /\ calls[i].op \in Mutations
          /\ calls'[i].st = "done" ) =>
          /\ EntityCache' = EntityCache
          /\ calls'[i].toast = 0
          /\ calls'[i].log = 0 ]_vars

\* C16: the handling of every failed mutation shows one failure notification
\* and writes one entry to the log.
C16_FailureNotified ==
  [][ \A i \in 1..Len(calls) :
        (ErrorHandled(i) /\ calls[i].op \in Mutations) =>
          /\ calls'[i].toast = 1
          /\ calls'[i].log = 1 ]_vars

\* The fields a model of a provider has to have, besides the provider tag.
RequiredFields(tag) ==
  IF tag = PROVIDER_OPENAI
    THEN {"apiKey", "model"}
    ELSE {"apiKey", "endpoint", "apiVersion", "deploymentId"}

\* C17: the form the dialog shows when opened with a provider has the fields
\* of that provider and no other, and every model the dialog passes to
\* onSubmit carries the tag of a provider, that of the provider the dialog
\* was opened with if it was opened with one, and exactly the required
\* fields of its tag, none of them empty.
C17_FieldsMatchProvider ==
  [][ /\ (showDialog' /\ dialogProvider' \in Providers) =>
           /\ modelForm'.provider = dialogProvider'
           /\ DOMAIN modelForm' =
                {"provider"} \cup RequiredFields(dialogProvider')
      /\ Len(submitted') > Len(submitted) =>
           LET model == submitted'[Len(submitted')] IN
           /\ model.provider \in Providers
           /\ DOMAIN model = {"provider"} \cup RequiredFields(model.provider)
           /\ \A field \in RequiredFields(model.provider) :
                Len(model[field]) > 0
           /\ dialogProvider \in Providers =>
                model.provider = dialogProvider ]_vars

\* C17 witness: the dialog, opened with OpenAI, has passed a model to
\* onSubmit.
C17_Witness ==
  /\ dialogProvider = PROVIDER_OPENAI
  /\ Len(submitted) = 1
  /\ submitted[1] = NewOpenAIModel(<<"x">>, <<"x">>)

\* The card of the settings page that saves under key.
CardOf(key) ==
  CASE key = SETTING_DISPLAY_LANGUAGE -> "language"
    [] key = SETTING_DISPLAY_THEME -> "theme"
    [] key = SETTING_PROFILE_NAME -> "name"
    [] key = SETTING_MODELS_CONTEXT_LENGTH -> "contextLength"
    [] key = SETTING_MODELS_MAX_TOKENS -> "maxTokens"
    [] key = SETTING_NETWORK_PROXY -> "proxy"

\* With the view v on the screen, the proxy form form, the edit dialog dialog
\* and the settings store, the screen has the control that issues the call c
\* again, the user being free to enter the values c carries: the Save button
\* of c's card (for the proxy, rendered while the form's switch is on; a
\* proxy that is off is saved by switching off a proxy that is stored on),
\* the new prompt dialog, or the edit dialog on c's prompt.
ResubmitAvailable(c, v, form, dialog, store) ==
  CASE c.op = "upsertSetting" ->
         /\ v = CardOf(c.key)
         /\ c.key = SETTING_NETWORK_PROXY =>
              /\ form.on
              /\ ~StoredProxyOn(c.value) =>
                   StoredProxyOn(store[SETTING_NETWORK_PROXY])
    [] c.op = "createPrompt" -> v = "prompts"
    [] c.op \in {"updatePrompt", "deletePrompt"} ->
         v = "prompts" /\ dialog.open /\ dialog.id = c.id

\* C18: when the failure of a settings or prompt mutation is handled and the
\* view is still on the screen, the screen has the control that issues the
\* same call again.
C18_RetryAvailable ==
  [][ \A i \in 1..Len(calls) :
        ( /\ ErrorHandled(i)
          /\ calls[i].op \in Mutations \ {"createConversation"}
          /\ view' # TornDown ) =>
          ResubmitAvailable(calls[i], view', proxyForm', editDialog',
                            settings') ]_vars

\* Every call but call i has been handled or cancelled.
OnlyInFlight(i) ==
  \A j \in 1..Len(calls) \ {i} : calls[j].st \in {"done", "cancelled"}

\* C19: when the success of an upsertSetting of the language, the theme or
\* the proxy is handled and no other call is in flight, the cached setting
\* is the value that call carried, the latest the gateway has stored.
C19_CacheHoldsSavedValue ==
  [][ \A i \in 1..Len(calls) :
        ( /\ SuccessHandled(i, "upsertSetting")
          /\ calls[i].key \in { SETTING_DISPLAY_LANGUAGE,
                                SETTING_DISPLAY_THEME,
                                SETTING_NETWORK_PROXY }
          /\ OnlyInFlight(i) ) =>
          settings'[calls[i].key] = calls[i].value ]_vars

\* C20: the success handler of an updatePrompt for an id that the cached
\* collection does not hold, a deletePrompt having removed it, leaves the
\* collection as it was.
C20_UpdateAfterDelete ==
  [][ \A i \in 1..Len(calls) :
        ( /\ SuccessHandled(i, "updatePrompt")
          /\ calls[i].resId \notin CacheIds(promptsCache) ) =>
          promptsCache' = promptsCache ]_vars

\* C20 witness: the gateway has updated and then deleted the one prompt, and
\* both responses have been handled: the collection is empty.
C20_Witness ==
  /\ Len(calls) = 3
  /\ \A i \in 1..3 : calls[i].st = "done" /\ calls[i].ok
  /\ gwPrompts = <<>>
  /\ promptsCache = Data(<<>>)

\* C21: when the selector handles a listRemoteModels success whose list is
\* empty, the model field stays as it was and render() does not read the id
\* of a first entry that the list does not have.
C21_EmptyListNoSelection ==
  [][ \A i \in 1..Len(calls) :
        ( /\ SuccessHandled(i, "listRemoteModels")
          /\ view = "remote"
          /\ Len(calls[i].resList) = 0 ) =>
          /\ modelField' = modelField
          /\ ~renderError' ]_vars

\* C22: after a Save of the context length or of the max tokens, the field's
\* error is set if and only if the input of that Save fails the validation:
\* a Save of a valid input clears the error an earlier Save has left.
C22_ErrorFollowsLastSave ==
  [][ \A v \in Inputs :
        /\ ContextLengthSave(v) =>
             (ctxError' # "" <=> ~SafeParse(v, CTX_MIN, CTX_MAX).success)
        /\ MaxTokensSave(v) =>
             (maxError' # "" <=>
                ~SafeParse(v, TOKENS_MIN, TOKENS_MAX).success) ]_vars

\* The fetches of the remote models that are at the gateway or on their way
\* back carry a key that is not empty.
FetchesCarryKey ==
  \A i \in 1..Len(calls) :
    calls[i].op = "listRemoteModels" => Len(calls[i].value) > 0

\* C23: no fetch of the remote models carries an empty key, and a click on
\* Load models while the key is empty sets the error of the apiKey field,
\* leaves the query disabled and issues no fetch.
C23_NoFetchWithEmptyKey ==
  /\ []FetchesCarryKey
  /\ [][ (OnClick /\ Len(apiKey) = 0) =>
           /\ apiKeyError' = EmptyApiKey
           /\ enabled' = enabled
           /\ calls' = calls ]_vars

====
